---- MODULE Spec2Model ----
(***************************************************************************)
(* Work-session bot (src/main.py): sessions started and stopped by chat    *)
(* messages, stored as documents of the Firestore collection "events" and  *)
(* mirrored as Google Calendar events whose end a background loop keeps    *)
(* rolling forward.                                                        *)
(*                                                                         *)
(* Time is counted in minutes.  The three coroutines create_event,         *)
(* stop_event and extend_active_events contain no await: every store and   *)
(* calendar call in them is a blocking call made on the bot's single       *)
(* event loop, so a coroutine that has begun runs to its return before any *)
(* other handler or the loop task is scheduled.  pc says which call the    *)
(* running coroutine is about to make; a new coroutine begins only from    *)
(* pc = "idle".                                                            *)
(*                                                                         *)
(* A calendar call either succeeds or raises HttpError, the one calendar   *)
(* failure the code handles by name; a store call either succeeds or       *)
(* raises some other exception.                                            *)
(***************************************************************************)
EXTENDS Integers, Sequences, FiniteSets, TLC

\* ---------------------------------------------------------------- bounds
MaxTime == 6          \* the wall clock runs over 0..MaxTime
MaxEvents == 2        \* calendar events (hence sessions) ever created
NumUsers == 2         \* message authors
NumGuilds == 1        \* servers; a direct message has guild None
ClockSkew == 1        \* |store server clock - bot clock|
MaxFaults == 1        \* collaborator calls that fail in one behaviour
MaxRollTime == 16     \* minutes the loop is followed at its cadence

\* ---------------------------------------------------------------- config
EXTEND_LOOP_SECONDS == 60
ROLLING_HORIZON == 15      \* minutes
TOP_UP_THRESHOLD == 10     \* minutes
GCAL_TIMEZONE == "UTC"

None == -1
Users == 1..NumUsers
Guilds == 1..NumGuilds
Scopes == Guilds \cup {None}

VARIABLES
    now,          \* wall clock of the bot, minutes
    events,       \* Firestore collection "events": document id -> fields
    gcal,         \* Google Calendar: event id -> event body
    loopRunning,  \* extend_active_events.is_running()
    loopTasks,    \* how many times extend_active_events.start() has been called
    ready,        \* the client is ready (bot.wait_until_ready() returns)
    pc,           \* next call of the running coroutine, or "idle" / "done"
    user,         \* create_event / stop_event: user.id
    guild,        \* create_event / stop_event: guild_id
    ts,           \* start_dt (create_event), stop_ts (stop_event), now (extender)
    doc,          \* stop_event: doc.id ; extender: the doc being extended
    event_id,     \* calendar event id in hand
    new_end,      \* extender: new_end
    active,       \* extender: the fetched snapshots
    todo,         \* extender: snapshots the for loop has not visited yet
    result,       \* what the coroutine returned (or that it raised)
    calls,        \* calendar calls made by the running coroutine so far
    writes,       \* store writes made by the running coroutine so far
    faults        \* collaborator calls that have failed so far

vars == <<now, events, gcal, loopRunning, loopTasks, ready, pc, user, guild, ts, doc, event_id,
          new_end, active, todo, result, calls, writes, faults>>

locals == <<user, guild, ts, doc, event_id, new_end, active, todo>>

\* --------------------------------------------------------------- helpers
\* now_utc(): the bot's clock.
now_utc == now

\* to_rfc3339: the timestamp as the calendar receives it, hours and minutes
\* written out, always with the 'Z' suffix.
to_rfc3339(dt) == <<dt \div 60, dt % 60, "Z">>

\* The "end" member of a calendar request body.
EndBody(dt) == [dateTime |-> to_rfc3339(dt), timeZone |-> GCAL_TIMEZONE]

\* firestore.SERVER_TIMESTAMP: the store's own clock at commit.
SERVER_TIMESTAMP ==
    {t \in (now - ClockSkew)..(now + ClockSkew) : t >= 0}

NoResult == [op |-> "none", status |-> "none", id |-> None]
Returned(op, s, i) == [op |-> op, status |-> s, id |-> i]

CalCall(fn, e, end, ok) == [fn |-> fn, event |-> e, end |-> end, ok |-> ok]

\* events_ref.where("user_id","==",u).where("end_time","==",None)
\*           [.where("guild_id","==",g) if g is not None]
\* (variant: the user_id filter left out)
ActiveQuery_AnyUser(u, g) ==
    {i \in DOMAIN events :
        /\ events[i].end_time = None
        /\ (g # None => events[i].guild_id = g)}
\* (variant: end_time != None for end_time == None)
ActiveQuery_Closed(u, g) ==
    {i \in DOMAIN events :
        /\ events[i].user_id = u
        /\ events[i].end_time # None
        /\ (g # None => events[i].guild_id = g)}
\* (variant: the end_time filter left out)
ActiveQuery_AnyState(u, g) ==
    {i \in DOMAIN events :
        /\ events[i].user_id = u
        /\ (g # None => events[i].guild_id = g)}
\* (as written)
ActiveQuery(u, g) ==
    {i \in DOMAIN events :
        /\ events[i].user_id = u
        /\ events[i].end_time = None
        /\ (g # None => events[i].guild_id = g)}

\* Line 97: if list(q.limit(1).stream()) -- the guard finds a document.
\* (variant: the guard skipped for direct messages)
GuardHit_ScopedOnly(u, g) == g # None /\ ActiveQuery(u, g) # {}
GuardHit(u, g) == ActiveQuery(u, g) # {}

\* events_ref.where("end_time","==",None)
\* (variant: the end_time filter left out)
AllActive_AnyDoc == DOMAIN events
\* (variant: filtered on calendar_event_id instead of end_time)
AllActive_WithEvent == {i \in DOMAIN events : events[i].calendar_event_id # None}
\* (as written)
AllActive == {i \in DOMAIN events : events[i].end_time = None}

\* (variant: min for max)
Newest_Oldest(snap) ==
    {i \in snap : \A j \in snap : events[j].start_time >= events[i].start_time}
\* max(snap, key=_get_start): the candidates with the latest start_time
\* (which of several equal ones max returns depends on the stream's order).
Newest(snap) ==
    {i \in snap : \A j \in snap : events[j].start_time <= events[i].start_time}

\* ------------------------------------------------------------------ Init
Init ==
    /\ now = 0
    /\ events = << >>
    /\ gcal = << >>
    /\ loopRunning = FALSE
    /\ loopTasks = 0
    /\ ready = FALSE
    /\ pc = "idle"
    /\ user = None /\ guild = None /\ ts = None /\ doc = None
    /\ event_id = None /\ new_end = None
    /\ active = {} /\ todo = {}
    /\ result = NoResult
    /\ calls = << >>
    /\ writes = << >>
    /\ faults = 0

\* A collaborator call fails (within the fault bound) / succeeds.
Fails == faults < MaxFaults /\ faults' = faults + 1
Succeeds == faults' = faults

\* The coroutine returns (or raises) with result r.
Finish(r) ==
    /\ pc' = "done"
    /\ result' = r

\* ---------------------------------------------------------- create_event
\* Lines 94-101: the double-start guard, then start_dt = now_utc().
create_event_guard(u, g) ==
    /\ pc = "idle"
    /\ Len(gcal) < MaxEvents
    /\ user' = u /\ guild' = g
    /\ calls' = << >> /\ writes' = << >>
    /\ UNCHANGED <<now, events, gcal, loopRunning, loopTasks, ready, doc, event_id, new_end, active, todo>>
    /\ \/ \* the query raises: nothing in create_event catches it
          /\ Fails
          /\ Finish(Returned("create_event", "raised", None))
          /\ ts' = None
       \/ /\ GuardHit(u, g)
          /\ Succeeds
          /\ Finish(Returned("create_event", "AlreadyActive", None))
          /\ ts' = None
       \/ /\ ~GuardHit(u, g)
          /\ Succeeds
          /\ ts' = now_utc
          /\ pc' = "insert"
          /\ result' = NoResult

\* Lines 107-111: insert_calendar_event(summary, start_dt, initial_end).
\* (variant: the return of line 111 left out)
create_event_insert_KeepsGoing ==
    /\ pc = "insert"
    /\ LET initial_end == ts + ROLLING_HORIZON IN
       \/ /\ Succeeds
          /\ gcal' = Append(gcal, [start |-> EndBody(ts), end |-> EndBody(initial_end)])
          /\ event_id' = Len(gcal) + 1
          /\ calls' = Append(calls, CalCall("insert", Len(gcal) + 1, initial_end, TRUE))
       \/ /\ Fails
          /\ calls' = Append(calls, CalCall("insert", None, initial_end, FALSE))
          /\ UNCHANGED <<gcal, event_id>>
    /\ pc' = "set"
    /\ result' = NoResult
    /\ UNCHANGED <<now, events, loopRunning, loopTasks, ready, user, guild, ts, doc, new_end, active, todo, writes>>
create_event_insert ==
    /\ pc = "insert"
    /\ LET initial_end == ts + ROLLING_HORIZON IN
       \/ /\ Succeeds
          /\ gcal' = Append(gcal, [start |-> EndBody(ts), end |-> EndBody(initial_end)])
          /\ event_id' = Len(gcal) + 1
          /\ calls' = Append(calls, CalCall("insert", Len(gcal) + 1, initial_end, TRUE))
          /\ pc' = "set"
          /\ result' = NoResult
       \/ \* HttpError
          /\ Fails
          /\ calls' = Append(calls, CalCall("insert", None, initial_end, FALSE))
          /\ Finish(Returned("create_event", "CalendarUnavailable", None))
          /\ UNCHANGED <<gcal, event_id>>
    /\ UNCHANGED <<now, events, loopRunning, loopTasks, ready, user, guild, ts, doc, new_end, active, todo, writes>>

\* Lines 114-129: doc_ref.set(doc_data).
create_event_set ==
    /\ pc = "set"
    /\ \/ /\ Succeeds
          /\ events' = Append(events,
                 [user_id |-> user, guild_id |-> guild,
                  start_time |-> ts, end_time |-> None,
                  calendar_event_id |-> event_id,
                  calendar_end |-> ts + ROLLING_HORIZON,
                  last_extend_check |-> ts])
          /\ writes' = Append(writes, Len(events) + 1)
          /\ Finish(Returned("create_event", "ok", Len(events) + 1))
       \/ \* the write raises: nothing in create_event catches it
          /\ Fails
          /\ Finish(Returned("create_event", "raised", None))
          /\ UNCHANGED <<events, writes>>
    /\ UNCHANGED <<now, gcal, loopRunning, loopTasks, ready, user, guild, ts, doc, event_id, new_end, active, todo, calls>>

\* ------------------------------------------------------------ stop_event
\* Lines 134-152: the scoped query, the cross-guild fallback, the choice of
\* the newest candidate, then stop_ts = now_utc().
stop_event_query(u, g) ==
    /\ pc = "idle"
    /\ user' = u /\ guild' = g
    /\ calls' = << >> /\ writes' = << >>
    /\ UNCHANGED <<now, events, gcal, loopRunning, loopTasks, ready, new_end, active, todo>>
    /\ LET scoped == ActiveQuery(u, g)
           snap == IF scoped = {} /\ g # None THEN ActiveQuery(u, None) ELSE scoped
       IN
       \/ \* a query raises: except Exception
          /\ Fails
          /\ Finish(Returned("stop_event", "error", None))
          /\ UNCHANGED <<ts, doc, event_id>>
       \/ /\ snap = {}
          /\ Succeeds
          /\ Finish(Returned("stop_event", "NoActiveSession", None))
          /\ UNCHANGED <<ts, doc, event_id>>
       \/ /\ snap # {}
          /\ Succeeds
          /\ \E d \in Newest(snap) :
                /\ doc' = d
                /\ event_id' = events[d].calendar_event_id
          /\ ts' = now_utc
          /\ pc' = "patch"
          /\ result' = NoResult

\* Lines 155-159: patch_calendar_event_end(event_id, stop_ts); an HttpError
\* is logged and stop_event goes on.
\* (variant: the HttpError left to the handler of line 169)
stop_event_patch_FailsStop ==
    /\ pc = "patch"
    /\ \/ /\ Succeeds
          /\ gcal' = [gcal EXCEPT ![event_id].end = EndBody(ts)]
          /\ calls' = Append(calls, CalCall("patch", event_id, ts, TRUE))
          /\ pc' = "update"
          /\ result' = result
       \/ /\ Fails
          /\ calls' = Append(calls, CalCall("patch", event_id, ts, FALSE))
          /\ Finish(Returned("stop_event", "error", None))
          /\ UNCHANGED gcal
    /\ UNCHANGED <<now, events, loopRunning, loopTasks, ready, locals, writes>>
\* (variant: the store update made without the calendar patch)
stop_event_patch_Skipped ==
    /\ pc = "patch"
    /\ pc' = "update"
    /\ UNCHANGED <<now, events, gcal, loopRunning, loopTasks, ready, locals, result,
                   calls, writes, faults>>
\* (as written)
stop_event_patch ==
    /\ pc = "patch"
    /\ IF event_id # None
       THEN \/ /\ Succeeds
               /\ gcal' = [gcal EXCEPT ![event_id].end = EndBody(ts)]
               /\ calls' = Append(calls, CalCall("patch", event_id, ts, TRUE))
            \/ \* HttpError
               /\ Fails
               /\ calls' = Append(calls, CalCall("patch", event_id, ts, FALSE))
               /\ UNCHANGED gcal
       ELSE UNCHANGED <<gcal, calls, faults>>
    /\ pc' = "update"
    /\ UNCHANGED <<now, events, loopRunning, loopTasks, ready, locals, result, writes>>

\* Lines 162-166: the fields stop_event writes.
\* (variant: calendar_end taken from the server timestamp)
StopFields_ServerEnd(d, st, stop_ts) ==
    [d EXCEPT !.end_time = st, !.calendar_end = st, !.last_extend_check = stop_ts]
\* (variant: last_extend_check taken from the server timestamp)
StopFields_ServerCheck(d, st, stop_ts) ==
    [d EXCEPT !.end_time = st, !.calendar_end = stop_ts, !.last_extend_check = st]
StopFields(d, st, stop_ts) ==
    [d EXCEPT !.end_time = st, !.calendar_end = stop_ts, !.last_extend_check = stop_ts]

\* Lines 162-171: doc.reference.update({...}); a failure is caught by
\* except Exception.
stop_event_update ==
    /\ pc = "update"
    /\ \/ \E st \in SERVER_TIMESTAMP :
             /\ Succeeds
             /\ events' = [events EXCEPT ![doc] = StopFields(events[doc], st, ts)]
             /\ writes' = Append(writes, doc)
             /\ Finish(Returned("stop_event", "ok", doc))
       \/ /\ Fails
          /\ Finish(Returned("stop_event", "error", None))
          /\ UNCHANGED <<events, writes>>
    /\ UNCHANGED <<now, gcal, loopRunning, loopTasks, ready, locals, calls>>

\* Back to the event loop with every local gone.
Idle ==
    /\ pc' = "idle"
    /\ user' = None /\ guild' = None /\ ts' = None /\ doc' = None
    /\ event_id' = None /\ new_end' = None /\ active' = {} /\ todo' = {}
    /\ result' = NoResult
    /\ calls' = << >> /\ writes' = << >>
    /\ UNCHANGED <<now, events, gcal, loopRunning, loopTasks, ready, faults>>

\* Lines 249-267: on_message sends the reply (or the raised exception ends
\* the handler); the handler is over.
Reply ==
    /\ pc = "done"
    /\ result.op \in {"create_event", "stop_event"}
    /\ Idle

\* -------------------------------------------------- extend_active_events
\* Lines 178-182: fetch the active sessions, then now = now_utc().
extend_fetch ==
    /\ pc = "idle"
    /\ loopRunning
    /\ ready
    /\ calls' = << >> /\ writes' = << >>
    /\ UNCHANGED <<now, events, gcal, loopRunning, loopTasks, ready, user, guild, doc, event_id, new_end>>
    /\ \/ \* the query raises: except Exception
          /\ Fails
          /\ Finish(Returned("extend_active_events", "logged", None))
          /\ UNCHANGED <<ts, active, todo>>
       \/ /\ AllActive = {}
          /\ Succeeds
          /\ Finish(Returned("extend_active_events", "returned", None))
          /\ UNCHANGED <<ts, active, todo>>
       \/ /\ AllActive # {}
          /\ Succeeds
          /\ active' = {[id |-> i, data |-> events[i]] : i \in AllActive}
          /\ todo' = active'
          /\ ts' = now_utc
          /\ pc' = "loop"
          /\ result' = NoResult

\* Line 194: is the snapshot d due for a top-up at the pass's now?
\* (variant: < for <=)
Due_Strict(d, n) ==
    LET current_end == IF d.data.calendar_end = None THEN n ELSE d.data.calendar_end
    IN  current_end - n < TOP_UP_THRESHOLD
\* (variant: the test left out)
Due_Always(d, n) == TRUE
\* (variant: topped up only once the end has passed)
Due_Expired(d, n) ==
    LET current_end == IF d.data.calendar_end = None THEN n ELSE d.data.calendar_end
    IN  current_end - n <= 0
\* (as written)
Due(d, n) ==
    LET current_end == IF d.data.calendar_end = None THEN n ELSE d.data.calendar_end
    IN  current_end - n <= TOP_UP_THRESHOLD

\* Lines 183-197, 203-204: one turn of the for loop, up to the calendar patch.
\* (variant: the HttpError left to the handler of line 206)
extend_iter_PatchAborts ==
    /\ pc = "loop"
    /\ UNCHANGED <<now, events, loopRunning, loopTasks, ready, user, guild, ts, active, writes>>
    /\ \/ /\ todo = {}
          /\ Finish(Returned("extend_active_events", "returned", None))
          /\ UNCHANGED <<gcal, doc, event_id, new_end, todo, calls, faults>>
       \/ \E d \in todo :
             /\ todo' = todo \ {d}
             /\ IF d.data.calendar_event_id # None /\ Due(d, ts)
                THEN \/ /\ Succeeds
                        /\ gcal' = [gcal EXCEPT ![d.data.calendar_event_id].end =
                                                     EndBody(ts + ROLLING_HORIZON)]
                        /\ calls' = Append(calls, CalCall("patch", d.data.calendar_event_id,
                                                          ts + ROLLING_HORIZON, TRUE))
                        /\ doc' = d.id
                        /\ event_id' = d.data.calendar_event_id
                        /\ new_end' = ts + ROLLING_HORIZON
                        /\ pc' = "mirror"
                        /\ result' = NoResult
                     \/ /\ Fails
                        /\ calls' = Append(calls, CalCall("patch", d.data.calendar_event_id,
                                                          ts + ROLLING_HORIZON, FALSE))
                        /\ Finish(Returned("extend_active_events", "logged", None))
                        /\ UNCHANGED <<gcal, doc, event_id, new_end>>
                ELSE /\ result' = NoResult
                     /\ UNCHANGED <<gcal, doc, event_id, new_end, pc, calls, faults>>
\* (variant: the store update made whether or not the patch succeeded)
extend_iter_MirrorsAnyway ==
    /\ pc = "loop"
    /\ UNCHANGED <<now, events, loopRunning, loopTasks, ready, user, guild, ts, active, writes>>
    /\ \/ /\ todo = {}
          /\ Finish(Returned("extend_active_events", "returned", None))
          /\ UNCHANGED <<gcal, doc, event_id, new_end, todo, calls, faults>>
       \/ \E d \in todo :
             /\ todo' = todo \ {d}
             /\ result' = NoResult
             /\ IF d.data.calendar_event_id # None /\ Due(d, ts)
                THEN /\ \/ /\ Succeeds
                           /\ gcal' = [gcal EXCEPT ![d.data.calendar_event_id].end =
                                                        EndBody(ts + ROLLING_HORIZON)]
                           /\ calls' = Append(calls, CalCall("patch", d.data.calendar_event_id,
                                                             ts + ROLLING_HORIZON, TRUE))
                        \/ /\ Fails
                           /\ calls' = Append(calls, CalCall("patch", d.data.calendar_event_id,
                                                             ts + ROLLING_HORIZON, FALSE))
                           /\ UNCHANGED gcal
                     /\ doc' = d.id
                     /\ event_id' = d.data.calendar_event_id
                     /\ new_end' = ts + ROLLING_HORIZON
                     /\ pc' = "mirror"
                ELSE UNCHANGED <<gcal, doc, event_id, new_end, pc, calls, faults>>
\* (as written)
extend_iter ==
    /\ pc = "loop"
    /\ UNCHANGED <<now, events, loopRunning, loopTasks, ready, user, guild, ts, active, writes>>
    /\ \/ /\ todo = {}
          /\ Finish(Returned("extend_active_events", "returned", None))
          /\ UNCHANGED <<gcal, doc, event_id, new_end, todo, calls, faults>>
       \/ \E d \in todo :
             /\ todo' = todo \ {d}
             /\ result' = NoResult
             /\ IF d.data.calendar_event_id # None /\ Due(d, ts)
                THEN \/ /\ Succeeds
                        /\ gcal' = [gcal EXCEPT ![d.data.calendar_event_id].end =
                                                     EndBody(ts + ROLLING_HORIZON)]
                        /\ calls' = Append(calls, CalCall("patch", d.data.calendar_event_id,
                                                          ts + ROLLING_HORIZON, TRUE))
                        /\ doc' = d.id
                        /\ event_id' = d.data.calendar_event_id
                        /\ new_end' = ts + ROLLING_HORIZON
                        /\ pc' = "mirror"
                     \/ \* HttpError: logged, on to the next doc
                        /\ Fails
                        /\ calls' = Append(calls, CalCall("patch", d.data.calendar_event_id,
                                                          ts + ROLLING_HORIZON, FALSE))
                        /\ UNCHANGED <<gcal, doc, event_id, new_end, pc>>
                ELSE UNCHANGED <<gcal, doc, event_id, new_end, pc, calls, faults>>

\* Lines 199-202: doc.reference.update({...}); a failure ends the pass in
\* except Exception.
extend_update ==
    /\ pc = "mirror"
    /\ UNCHANGED <<now, gcal, loopRunning, loopTasks, ready, user, guild, ts, active, todo, calls>>
    /\ \/ /\ Succeeds
          /\ events' = [events EXCEPT ![doc].calendar_end = new_end,
                                      ![doc].last_extend_check = ts]
          /\ writes' = Append(writes, doc)
          /\ doc' = None /\ event_id' = None /\ new_end' = None
          /\ pc' = "loop"
          /\ result' = NoResult
       \/ /\ Fails
          /\ Finish(Returned("extend_active_events", "logged", None))
          /\ UNCHANGED <<events, writes, doc, event_id, new_end>>

\* The pass has returned; the loop task sleeps until its next turn.
LoopSleep ==
    /\ pc = "done"
    /\ result.op = "extend_active_events"
    /\ Idle

\* Line 217: the condition under which on_ready starts the loop.
\* (variant: started at every ready event; two tasks are enough to tell)
ShouldStart_Always == loopTasks < 2
\* (as written)
ShouldStart == ~loopRunning

\* Lines 214-218: the client is ready and dispatches on_ready (again after
\* every reconnect), which starts the loop unless it is running already.
\* The loop body catches every Exception, so a started task never ends.
on_ready ==
    /\ pc = "idle"
    /\ ready' = TRUE
    /\ IF ShouldStart
       THEN /\ loopRunning' = TRUE
            /\ loopTasks' = loopTasks + 1
       ELSE UNCHANGED <<loopRunning, loopTasks>>
    /\ UNCHANGED <<now, events, gcal, pc, locals, result, calls, writes, faults>>

\* ----------------------------------------------------------------- clock
\* The clock advances between coroutines: a blocking call lasts far less than
\* the minute the clock counts in.  The code reads only differences of
\* times, so the clock is counted from the first calendar insert.
Tick ==
    /\ pc = "idle"
    /\ gcal # << >>
    /\ now < MaxTime
    /\ now' = now + 1
    /\ UNCHANGED <<events, gcal, loopRunning, loopTasks, ready, pc, locals, result, calls, writes, faults>>

Next ==
    \/ \E u \in Users, g \in Scopes : create_event_guard(u, g)
    \/ create_event_insert
    \/ create_event_set
    \/ \E u \in Users, g \in Scopes : stop_event_query(u, g)
    \/ stop_event_patch
    \/ stop_event_update
    \/ Reply
    \/ extend_fetch
    \/ extend_iter
    \/ extend_update
    \/ LoopSleep
    \/ on_ready
    \/ Tick

Spec == Init /\ [][Next]_vars

\* ------------------------------------------------- the loop at its cadence
\* Line 174: @tasks.loop(seconds=EXTEND_LOOP_SECONDS) -- the pass has
\* returned and the loop task sleeps until EXTEND_LOOP_SECONDS after the
\* pass began; the clock is then that much later.
LoopSleepCadence ==
    /\ pc = "done"
    /\ result.op = "extend_active_events"
    /\ now + EXTEND_LOOP_SECONDS \div 60 <= MaxRollTime
    /\ now' = now + EXTEND_LOOP_SECONDS \div 60
    /\ pc' = "idle"
    /\ user' = None /\ guild' = None /\ ts' = None /\ doc' = None
    /\ event_id' = None /\ new_end' = None /\ active' = {} /\ todo' = {}
    /\ result' = NoResult
    /\ calls' = << >> /\ writes' = << >>
    /\ UNCHANGED <<events, gcal, loopRunning, loopTasks, ready, faults>>

\* The program with the clock driven by the loop, for sessions that stay
\* open: once the loop runs, every period has its pass, and the start
\* messages of a period are handled before it.
NextRolling ==
    \/ \E u \in Users, g \in Scopes : create_event_guard(u, g)
    \/ create_event_insert
    \/ create_event_set
    \/ Reply
    \/ extend_fetch
    \/ extend_iter
    \/ extend_update
    \/ LoopSleepCadence
    \/ on_ready

SpecRolling == Init /\ [][NextRolling]_vars

\* ================================================================ claims
\* Documents of actor u in scope g (g = None: started in a direct message)
\* that are still open.
OpenFor(u, g) ==
    {i \in DOMAIN events :
        events[i].user_id = u /\ events[i].guild_id = g /\ events[i].end_time = None}

StartDone == pc = "done" /\ result.op = "create_event"
StopDone == pc = "done" /\ result.op = "stop_event"
PassRunning == pc \in {"loop", "mirror"} \/ (pc = "done" /\ result.op = "extend_active_events")
InsertedOk == \E k \in 1..Len(calls) : calls[k].fn = "insert" /\ calls[k].ok

\* C1: in every reachable state, for every actor and scope, at most one
\* session of that actor and scope has end_time = None.
C1_SingleActive ==
    \A u \in Users, g \in Scopes : Cardinality(OpenFor(u, g)) <= 1

\* C1 witness: an actor has closed a session of a scope and holds a new open
\* one in the same scope.
C1_Witness ==
    \E i, j \in DOMAIN events :
        /\ events[i].user_id = events[j].user_id
        /\ events[i].guild_id = events[j].guild_id
        /\ events[i].end_time # None
        /\ events[j].end_time = None

\* C2: when create_event has returned or raised, it has created a calendar
\* event exactly if it has written a session document.
C2_StartAllOrNothing ==
    StartDone => (InsertedOk <=> writes # << >>)

CalendarEndIs(i, t) == gcal[events[i].calendar_event_id].end = EndBody(t)

Closed == {i \in DOMAIN events : events[i].end_time # None}

\* C4 as claimed: whenever no coroutine is running, the calendar event of
\* every stopped session ends at the session's stop time.
C4_CalendarFinalized ==
    pc = "idle" => \A i \in Closed : CalendarEndIs(i, events[i].calendar_end)

\* C4 amended: when stop_event returns successfully and its end patch did
\* not fail, the calendar event ends at the stop time; and no later step
\* changes the calendar event or the stored stop time of a stopped session.
C4_FinalizedWhenPatched ==
    /\ [](StopDone /\ result.status = "ok" /\ calls[1].ok
            => CalendarEndIs(result.id, ts) /\ events[result.id].calendar_end = ts)
    /\ [][\A i \in Closed :
            /\ gcal'[events[i].calendar_event_id] = gcal[events[i].calendar_event_id]
            /\ events'[i] = events[i]]_vars

\* C4 witness: a pass of the extender has extended an open session while a
\* stopped session's calendar event still ends at its stop time.
C4_Witness ==
    /\ pc = "done" /\ result.op = "extend_active_events"
    /\ writes # << >>
    /\ \E i \in Closed : CalendarEndIs(i, events[i].calendar_end)

\* C5: a create_event for an actor and scope that already have an open
\* session creates no calendar event, leaves the store as it is and, the
\* store having answered the guard's query, returns the AlreadyActive error.
C5_SecondStartRejected ==
    [][\A u \in Users, g \in Scopes :
          (create_event_guard(u, g) /\ OpenFor(u, g) # {}) =>
              /\ pc' = "done"
              /\ faults' = faults => result' = Returned("create_event", "AlreadyActive", None)
              /\ calls' = << >> /\ writes' = << >>
              /\ events' = events /\ gcal' = gcal]_vars

\* C5 witness: create_event has refused an actor who holds an open session
\* in the scope of the message.
C5_Witness ==
    /\ StartDone /\ result.status = "AlreadyActive"
    /\ OpenFor(user, guild) # {}

\* C6: when the calendar insert of create_event has failed, create_event
\* has returned the CalendarUnavailable error without writing a document,
\* and the actor has no open session in the scope.
C6_InsertFailureLeavesNoSession ==
    (StartDone /\ calls # << >> /\ ~calls[Len(calls)].ok) =>
        /\ result = Returned("create_event", "CalendarUnavailable", None)
        /\ writes = << >>
        /\ {i \in DOMAIN events :
               /\ events[i].user_id = user
               /\ events[i].end_time = None
               /\ (guild # None => events[i].guild_id = guild)} = {}

\* C6 witness: a calendar insert has failed while another session is open.
C6_Witness ==
    /\ StartDone /\ result.status = "CalendarUnavailable"
    /\ ~calls[1].ok
    /\ \E i \in DOMAIN events : events[i].end_time = None

\* C7: a failed end patch does not fail stop_event: it goes on to the store
\* update, and once the store has taken the update the document has an
\* end_time, calendar_end and last_extend_check are the stop time, and the
\* document id is returned.
C7_StopSurvivesPatchFailure ==
    [][/\ (pc = "patch" /\ pc' # "patch") => (pc' = "update" /\ events' = events)
       /\ (pc = "update" /\ pc' # "update" /\ Len(calls) = 1 /\ ~calls[1].ok
             /\ faults' = faults) =>
               /\ pc' = "done"
               /\ result' = Returned("stop_event", "ok", doc)
               /\ events'[doc].end_time # None
               /\ events'[doc].calendar_end = ts
               /\ events'[doc].last_extend_check = ts]_vars

\* C7 witness: stop_event has returned a document id although its end
\* patch failed, and the document is closed.
C7_Witness ==
    /\ StopDone /\ result.status = "ok"
    /\ Len(calls) = 1 /\ ~calls[1].ok
    /\ events[result.id].end_time # None
    /\ events[result.id].calendar_end = ts

\* The snapshots the running pass has been through, and the calendar calls
\* it has made for calendar event e.
Visited == active \ todo
CallsFor(e) == {k \in 1..Len(calls) : calls[k].event = e}

C9_NotDueUntouched ==
    PassRunning =>
        \A d \in Visited :
            d.data.calendar_end - ts > TOP_UP_THRESHOLD =>
                /\ CallsFor(d.data.calendar_event_id) = {}
                /\ \A k \in 1..Len(writes) : writes[k] # d.id
                /\ events[d.id] = d.data
                /\ events[d.id].calendar_end - now > TOP_UP_THRESHOLD

\* C9 witness: the pass at 4 over the session started at 0 with
\* calendar_end 15 has returned without a calendar call.
C9_Witness ==
    /\ pc = "done" /\ result.op = "extend_active_events"
    /\ ts = 4
    /\ calls = << >>
    /\ \E d \in active : d.data.start_time = 0 /\ d.data.calendar_end = 15

\* C10: a stop_event for an actor without any open session, in whatever
\* scope, makes no calendar call and no store write and, the store having
\* answered the queries, returns the NoActiveSession error.
C10_StopWithoutSession ==
    [][\A u \in Users, g \in Scopes :
          (/\ stop_event_query(u, g)
           /\ {i \in DOMAIN events : events[i].user_id = u /\ events[i].end_time = None} = {}) =>
              /\ pc' = "done"
              /\ faults' = faults => result' = Returned("stop_event", "NoActiveSession", None)
              /\ calls' = << >> /\ writes' = << >>
              /\ events' = events /\ gcal' = gcal]_vars

\* C10 witness: stop_event has answered NoActiveSession to an actor whose
\* own session is closed while another actor's session is open.
C10_Witness ==
    /\ StopDone /\ result.status = "NoActiveSession"
    /\ \E i \in DOMAIN events : events[i].user_id = user /\ events[i].end_time # None
    /\ \E i \in DOMAIN events : events[i].user_id # user /\ events[i].end_time = None

\* C11: no step changes the end_time of a document whose end_time is set.
C11_EndTimeTerminal ==
    [][\A i \in Closed : events'[i].end_time = events[i].end_time]_vars

\* C11 witness: stop_event has closed a session of an actor who already had
\* a closed one.
C11_Witness ==
    /\ StopDone /\ result.status = "ok"
    /\ \E i \in Closed : i # result.id /\ events[i].user_id = user

\* C12: no create_event, stop_event or extend_active_events ends with a
\* collaborator's exception escaping it.
C12_NoExceptionEscapes ==
    pc = "done" => result.status # "raised"

\* C13: no step lowers the last_extend_check of a document.
C13_LastCheckMonotonic ==
    [][\A i \in DOMAIN events :
          events'[i].last_extend_check >= events[i].last_extend_check]_vars

\* C13 witness: the session started at 0 was extended by the pass at 5 (the
\* calendar still shows that end, the stop's patch having failed) and
\* stop_event at 6 has written its stop time as last_extend_check.
C13_Witness ==
    /\ StopDone /\ result.status = "ok"
    /\ ts = 6
    /\ events[result.id].start_time = 0
    /\ events[result.id].last_extend_check = 6
    /\ ~calls[1].ok
    /\ CalendarEndIs(result.id, 5 + ROLLING_HORIZON)

PassDone == pc = "done" /\ result.op = "extend_active_events"
FailedCalls == {k \in 1..Len(calls) : ~calls[k].ok}

\* C14: a pass in which a calendar patch failed, and which no store failure
\* ended, has gone through every fetched session and returned; every one of
\* them that was due got its patch call and, that call having succeeded, is
\* extended in the calendar and in the store.
C14_PatchFailureDoesNotAbort ==
    (PassDone /\ FailedCalls # {} /\ doc = None) =>
        /\ result.status = "returned"
        /\ todo = {}
        /\ \A d \in active :
              d.data.calendar_end - ts <= TOP_UP_THRESHOLD =>
                  \E k \in CallsFor(d.data.calendar_event_id) :
                      /\ calls[k].end = ts + ROLLING_HORIZON
                      /\ calls[k].ok =>
                            /\ CalendarEndIs(d.id, ts + ROLLING_HORIZON)
                            /\ events[d.id].calendar_end = ts + ROLLING_HORIZON
                            /\ events[d.id].last_extend_check = ts

\* C14 witness: in a pass over two due sessions the first patch failed and
\* the second session has been extended all the same.
C14_Witness ==
    /\ PassDone /\ result.status = "returned"
    /\ Cardinality(active) = 2
    /\ Len(calls) = 2 /\ ~calls[1].ok /\ calls[2].ok
    /\ Len(writes) = 1
    /\ events[writes[1]].calendar_end = ts + ROLLING_HORIZON

\* C15: extend_active_events.start() is called at most once however often
\* on_ready fires, and only by on_ready, when the client is ready; a pass
\* runs only with the client ready and exactly one loop task, and it begins
\* only when no coroutine (an earlier pass included) is still running.
C15_OnePassAtATime ==
    /\ [](loopTasks <= 1)
    /\ [](PassRunning => (ready /\ loopTasks = 1))
    /\ [][loopTasks' # loopTasks => (ready' /\ pc = "idle" /\ pc' = "idle")]_vars
    /\ [][(~PassRunning /\ PassRunning') => pc = "idle"]_vars

\* C15 witness: after on_ready, a pass of the one loop task is at work on a
\* session some minutes into the run.
C15_Witness ==
    /\ PassRunning /\ pc = "mirror"
    /\ loopRunning /\ ready /\ loopTasks = 1
    /\ now > 0

\* The sessions Stop chooses from: the actor's open sessions in scope g, or
\* all the actor's open sessions when g is None or that set is empty.
OpenOf(u) == {i \in DOMAIN events : events[i].user_id = u /\ events[i].end_time = None}
Candidates(u, g) ==
    IF g = None \/ OpenFor(u, g) = {} THEN OpenOf(u) ELSE OpenFor(u, g)
StopCloses == pc = "update" /\ pc' = "done" /\ result'.status = "ok"

\* C16: the step by which a Stop succeeds closes one document, result.id:
\* it was a candidate, no candidate had a later start_time, it is the only
\* document that becomes closed, and every other document is unchanged.
C16_StopClosesNewestOnly ==
    [][StopCloses =>
          /\ result'.id \in Candidates(user, guild)
          /\ \A j \in Candidates(user, guild) :
                events[j].start_time <= events[result'.id].start_time
          /\ events'[result'.id].end_time # None
          /\ DOMAIN events' = DOMAIN events
          /\ \A j \in DOMAIN events \ {result'.id} : events'[j] = events[j]
          /\ writes' = <<result'.id>>]_vars

\* C16 witness: a Stop without scope has closed the later-started of the
\* actor's two open sessions; the earlier one is still open.
C16_Witness ==
    /\ StopDone /\ result.status = "ok" /\ guild = None
    /\ \E j \in OpenOf(user) :
          /\ j # result.id
          /\ events[j].start_time < events[result.id].start_time
          /\ events[j].guild_id = None
          /\ events[result.id].guild_id # None

StopPatchCalls(e, t) ==
    {k \in 1..Len(calls) : calls[k].fn = "patch" /\ calls[k].event = e /\ calls[k].end = t}

\* C17: a step that sets the end_time of a document is taken by a stop_event
\* that has already called the calendar patch (successfully or not) for that
\* document's event with its stop time; while the patch is still to be
\* called the document is open.
C17_PatchBeforeUpdate ==
    /\ [](pc = "patch" => events[doc].end_time = None)
    /\ [][\A i \in DOMAIN events :
             (events[i].end_time = None /\ events'[i].end_time # None) =>
                 /\ pc = "update" /\ i = doc
                 /\ StopPatchCalls(events[i].calendar_event_id, ts) # {}]_vars

\* C17 witness: stop_event between its two calls: the calendar event already
\* ends at the stop time, the document is still open.
C17_Witness ==
    /\ pc = "update"
    /\ Len(calls) = 1 /\ calls[1].ok
    /\ gcal[event_id].end = EndBody(ts)
    /\ events[doc].end_time = None
    /\ events[doc].calendar_end > ts

Fetched == {d.id : d \in active}
Written == {writes[k] : k \in 1..Len(writes)}

\* C18: a document that is closed while a pass runs (it was closed before
\* the pass fetched, passes running without interruption) is not among the
\* fetched, gets no calendar call and no store write in the pass, and no
\* step of a pass changes a closed document.
C18_ClosedSessionIgnored ==
    /\ [](PassRunning =>
            \A i \in Closed :
                /\ i \notin Fetched
                /\ i \notin Written
                /\ CallsFor(events[i].calendar_event_id) = {})
    /\ [][PassRunning' => \A i \in Closed : events'[i] = events[i]]_vars

\* C18 witness: a pass has gone through its fetched sessions and extended
\* one, while a session stopped before the pass, whose calendar_end is within
\* the threshold, has been left alone.
C18_Witness ==
    /\ pc = "loop" /\ todo = {} /\ Fetched # {}
    /\ Written = Fetched
    /\ \E i \in Closed :
          /\ events[i].calendar_end - ts <= TOP_UP_THRESHOLD
          /\ events[i].last_extend_check < ts
          /\ CalendarEndIs(i, events[i].calendar_end)

\* C20: in a pass, a fetched document differs from its fetched state only
\* if a patch call for its event with the calendar_end now stored has
\* succeeded; a document whose patch call failed is as fetched, not written,
\* and still within TOP_UP_THRESHOLD of the pass's now.
C20_StoreFollowsCalendar ==
    PassRunning =>
        \A d \in active :
            /\ (events[d.id] # d.data \/ d.id \in Written) =>
                   \E k \in CallsFor(d.data.calendar_event_id) :
                       /\ calls[k].ok
                       /\ calls[k].end = events[d.id].calendar_end
                       /\ CalendarEndIs(d.id, calls[k].end)
            /\ (\E k \in CallsFor(d.data.calendar_event_id) : ~calls[k].ok) =>
                   /\ events[d.id] = d.data
                   /\ d.id \notin Written
                   /\ events[d.id].calendar_end - ts <= TOP_UP_THRESHOLD

\* C20 witness: a pass has returned after a failed patch; the document and
\* the calendar event are as they were when fetched, with an older
\* last_extend_check.
C20_Witness ==
    /\ PassDone /\ result.status = "returned"
    /\ \E d \in active :
          /\ \E k \in CallsFor(d.data.calendar_event_id) : ~calls[k].ok
          /\ events[d.id].last_extend_check < ts
          /\ CalendarEndIs(d.id, d.data.calendar_end)
    /\ writes = << >>

Open == {i \in DOMAIN events : events[i].end_time = None}

\* C19 (under SpecRolling): as long as no collaborator call has failed, the
\* calendar_end of every open session is later than now and is the end of
\* its calendar event (but between the two calls of the coroutine that is
\* extending or stopping it), and when a pass has returned the calendar_end
\* of every session it fetched exceeds now by more than TOP_UP_THRESHOLD.
C19_RollingEndAhead ==
    faults = 0 =>
        /\ \A i \in Open :
              /\ events[i].calendar_end > now
              /\ \/ CalendarEndIs(i, events[i].calendar_end)
                 \/ pc = "mirror" /\ i = doc /\ CalendarEndIs(i, new_end)
                 \/ pc = "update" /\ i = doc
        /\ PassDone =>
              \A d \in active : events[d.id].calendar_end - now > TOP_UP_THRESHOLD

\* C19 witness: a session started at 0 is open after the pass at 15, the
\* end first given to its calendar event: it has been topped up three times
\* (at 5 to 20, at 10 to 25, at 15 to 30).
C19_Witness ==
    /\ PassDone /\ faults = 0 /\ now = ROLLING_HORIZON
    /\ \E d \in active :
          /\ events[d.id].start_time = 0
          /\ d.data.calendar_end = 10 + ROLLING_HORIZON
          /\ events[d.id].calendar_end = 15 + ROLLING_HORIZON
          /\ events[d.id].end_time = None
          /\ CalendarEndIs(d.id, 15 + ROLLING_HORIZON)
====
